---- MODULE Spec2Model ----
(***************************************************************************)
(* LDAP auth provider for Backstage: the credential request handler        *)
(* (provider.ts: createLdapProviderFactory / handleCredentialAuth) and the *)
(* authenticator it calls (ldapClient.ts: authenticateWithLdap).           *)
(*                                                                         *)
(* Text that can be mixed with the submitted username (the username, the   *)
(* search filter, attribute values) is a sequence of one-character         *)
(* strings; names that are never mixed with it (DNs, attribute names,      *)
(* passwords, environment names) are TLA+ strings.  An error message is    *)
(* the triple <<prefix, interpolated text, suffix>> of its template.       *)
(***************************************************************************)
EXTENDS Integers, Sequences, FiniteSets, TLC

\* ------------------------------------------------------------------ bounds

\* Longest search result the directory returns.
MaxEntries == 2

\* ------------------------------------------------------------ JS values

\* JavaScript's undefined, for a string and for a character sequence.
Undefined == "<undefined>"
UndefinedText == << "<undefined>" >>

\* !x for a string and for a character sequence (undefined and "" are falsy).
Truthy(s) == s # Undefined /\ s # ""
TruthyText(t) == t # UndefinedText /\ t # << >>

\* A message without interpolation.
Txt(s) == << s, << >>, "" >>

\* --------------------------------------------------------------- errors

UserNotFoundError(username) ==
  [name |-> "Error",
   message |-> << "User '", username, "' not found in LDAP directory" >>]

InvalidCredentialsError(username) ==
  [name |-> "Error",
   message |-> << "Invalid credentials for user '", username, "'" >>]

MissingEnvError ==
  [name |-> "InputError",
   message |-> Txt("Must specify 'env' query to select environment")]

NoSuchEnvError(env) ==
  [name |-> "NotFoundError",
   message |-> << "No configuration available for the '", << env >>,
                  "' environment of this provider." >>]

\* What the directory client (ldapts) throws: the directory's own answers.
WrongPassword ==
  [name |-> "InvalidCredentialsError", message |-> Txt("Invalid credentials")]
AccountLocked ==
  [name |-> "UnwillingToPerformError", message |-> Txt("Account locked")]
ConnectFailed ==
  [name |-> "Error", message |-> Txt("connect ECONNREFUSED")]
DirErrors == {WrongPassword, AccountLocked, ConnectFailed}
\* What a failing unbind throws.
UnbindErrors == {ConnectFailed}

ResolverFailed ==
  [name |-> "NotFoundError", message |-> Txt("User not found in catalog")]

\* ------------------------------------------------------- filter building

\* char.charCodeAt(0).toString(16).padStart(2, '0') for the escaped characters.
NUL == "<NUL>"
Backquote == "<backquote>"
HexCode(c) ==
  CASE c = "\\" -> << "5", "c" >>
    [] c = "*"  -> << "2", "a" >>
    [] c = "("  -> << "2", "8" >>
    [] c = ")"  -> << "2", "9" >>
    [] c = "\"" -> << "2", "2" >>
    [] c = NUL  -> << "0", "0" >>
    [] c = "/"  -> << "2", "f" >>

\* The character class of escapeLdapFilter's regular expression.
EscapedChars == {"\\", "*", "(", ")", "\"", NUL, "/"}

RECURSIVE escapeLdapFilter(_)
escapeLdapFilter(input) ==
  IF input = << >> THEN << >>
  ELSE LET c == Head(input)
       IN (IF c \in EscapedChars THEN << "\\" >> \o HexCode(c) ELSE << c >>)
          \o escapeLdapFilter(Tail(input))

\* The placeholder matched by /\{\{username\}\}/g.
Placeholder == << "{", "{", "u", "s", "e", "r", "n", "a", "m", "e", "}", "}" >>

MatchesAt(s, i) ==
  /\ i + Len(Placeholder) - 1 <= Len(s)
  /\ SubSeq(s, i, i + Len(Placeholder) - 1) = Placeholder

\* String.prototype.replace's expansion of a replacement string: $$ is a
\* dollar sign, $& the match, $ with a backquote the text before it, $ with
\* a quote the text after it;
\* the pattern has no capture group, so $1.. stay as written.
RECURSIVE ExpandReplacement(_, _, _)
ExpandReplacement(repl, before, after) ==
  IF repl = << >> THEN << >>
  ELSE IF Head(repl) = "$" /\ Len(repl) >= 2
       THEN LET d == repl[2]
                rest == SubSeq(repl, 3, Len(repl))
            IN CASE d = "$"  -> << "$" >> \o ExpandReplacement(rest, before, after)
                 [] d = "&"  -> Placeholder \o ExpandReplacement(rest, before, after)
                 [] d = Backquote -> before \o ExpandReplacement(rest, before, after)
                 [] d = "'"  -> after \o ExpandReplacement(rest, before, after)
                 [] OTHER    -> << "$" >> \o ExpandReplacement(Tail(repl), before, after)
       ELSE << Head(repl) >> \o ExpandReplacement(Tail(repl), before, after)

\* template.replace(/\{\{username\}\}/g, repl), scanning from position i.
RECURSIVE ReplaceFrom(_, _, _)
ReplaceFrom(template, repl, i) ==
  IF i > Len(template) THEN << >>
  ELSE IF MatchesAt(template, i)
       THEN ExpandReplacement(repl,
                              SubSeq(template, 1, i - 1),
                              SubSeq(template, i + Len(Placeholder), Len(template)))
            \o ReplaceFrom(template, repl, i + Len(Placeholder))
       ELSE << template[i] >> \o ReplaceFrom(template, repl, i + 1)

BuildFilter(searchFilter, username) ==
  ReplaceFrom(searchFilter, escapeLdapFilter(username), 1)

\* ---------------------------------------------------- attribute values

\* A directory attribute value of an entry: a string, an array whose items
\* are strings or something else (a Buffer), or something else.  An attribute
\* the entry lacks is undefined.
VStr(s) == [t |-> "string", s |-> s, a |-> << >>]
VArr(items) == [t |-> "array", s |-> << >>, a |-> items]
VOther == [t |-> "other", s |-> << >>, a |-> << >>]
VUndef == [t |-> "undefined", s |-> << >>, a |-> << >>]
ItemStr(s) == [str |-> TRUE, s |-> s]
ItemOther == [str |-> FALSE, s |-> << >>]

\* entry[attribute]
Attr(entry, attribute) ==
  IF attribute \in DOMAIN entry.attrs THEN entry.attrs[attribute] ELSE VUndef

\* value.filter((v): v is string => typeof v === 'string')
RECURSIVE FilterStrings(_)
FilterStrings(items) ==
  IF items = << >> THEN << >>
  ELSE (IF Head(items).str THEN << Head(items).s >> ELSE << >>)
       \o FilterStrings(Tail(items))

\* An optional result: a string (text), a string array, or undefined.
NoResult == [t |-> "undefined", s |-> << >>, a |-> << >>]
StrResult(s) == [t |-> "string", s |-> s, a |-> << >>]
ArrResult(a) == [t |-> "array", s |-> << >>, a |-> a]

\* A scalar-only reading: an array value counts as no value.
extractStringAttribute_ScalarOnly(entry, attribute) ==
  LET value == Attr(entry, attribute)
  IN IF value.t = "string" THEN StrResult(value.s) ELSE NoResult

extractStringAttribute(entry, attribute) ==
  LET value == Attr(entry, attribute)
  IN IF value.t = "string" THEN StrResult(value.s)
     ELSE IF value.t = "array" /\ value.a # << >> /\ value.a[1].str
          THEN StrResult(value.a[1].s)
          ELSE NoResult

\* No coercion of a single string into a one-element array.
extractStringArrayAttribute_ArraysOnly(entry, attribute) ==
  LET value == Attr(entry, attribute)
  IN IF value.t = "array" THEN ArrResult(FilterStrings(value.a)) ELSE NoResult

extractStringArrayAttribute(entry, attribute) ==
  LET value == Attr(entry, attribute)
  IN IF value.t = "array" THEN ArrResult(FilterStrings(value.a))
     ELSE IF value.t = "string" THEN ArrResult(<< value.s >>)
          ELSE NoResult

\* The keys set by extractAllAttributes' loop, and the value of each.
AllAttributesKeys(entry, attributes) ==
  {attributes[i] : i \in {j \in 1..Len(attributes) :
                            Attr(entry, attributes[j]).t \in {"string", "array"}}}

extractAllAttributes(entry, attributes) ==
  [attr \in AllAttributesKeys(entry, attributes) |->
     LET value == Attr(entry, attr)
     IN IF value.t = "string" THEN StrResult(value.s)
        ELSE ArrResult(FilterStrings(value.a))]

\* -------------------------------------------------------- configuration

DefaultSearchFilter ==
  << "(", "u", "i", "d", "=" >> \o Placeholder \o << ")" >>
DefaultUserAttributes == << "mail", "displayName", "memberOf" >>
UndefinedList == << "<undefined>" >>

\* x ?? d
OrElse(x, undef, d) == IF x = undef THEN d ELSE x

\* readLdapEnvironmentConfig: the raw block's values with the defaults applied.
\* A reader whose certificate check is off unless it is switched on.
readLdapEnvironmentConfig_LaxTls(raw) ==
  [url |-> raw.url,
   bindDN |-> raw.bindDN,
   bindCredentials |-> raw.bindCredentials,
   searchBase |-> raw.searchBase,
   usernameAttribute |-> OrElse(raw.usernameAttribute, Undefined, "uid"),
   searchFilter |-> OrElse(raw.searchFilter, UndefinedText, DefaultSearchFilter),
   userAttributes |-> OrElse(raw.userAttributes, UndefinedList, DefaultUserAttributes),
   tls |-> [rejectUnauthorized |-> raw.rejectUnauthorized = "true"]]

readLdapEnvironmentConfig(raw) ==
  [url |-> raw.url,
   bindDN |-> raw.bindDN,
   bindCredentials |-> raw.bindCredentials,
   searchBase |-> raw.searchBase,
   usernameAttribute |-> OrElse(raw.usernameAttribute, Undefined, "uid"),
   searchFilter |-> OrElse(raw.searchFilter, UndefinedText, DefaultSearchFilter),
   userAttributes |-> OrElse(raw.userAttributes, UndefinedList, DefaultUserAttributes),
   tls |-> [rejectUnauthorized |->
              OrElse(raw.rejectUnauthorized, Undefined, "true") = "true"]]

\* The environments a configuration may name, and what a request may ask for.
EnvNames == {"development", "production"}
RequestEnvs == EnvNames \cup {"staging", Undefined}
NodeEnvs == {"development", "production"}

\* The raw block of one environment ("" is the flat, top-level block).  The
\* blocks differ in their search base.
RawBlock(common, env) ==
  [common EXCEPT !.searchBase =
     CASE env = "development" -> "ou=users,dc=dev"
       [] env = "production"  -> "ou=users,dc=prod"
       [] OTHER               -> "ou=users,dc=example"]

NoConfig == readLdapEnvironmentConfig(
  [url |-> "", bindDN |-> Undefined, bindCredentials |-> Undefined,
   searchBase |-> "", usernameAttribute |-> Undefined,
   searchFilter |-> UndefinedText, userAttributes |-> UndefinedList,
   rejectUnauthorized |-> Undefined])

\* 'development' as the default wherever it is configured, whatever NODE_ENV.
DefaultEnv_DevelopmentWhereConfigured(envs, nodeEnv) ==
  IF Cardinality(envs) = 1 THEN CHOOSE e \in envs : TRUE
  ELSE IF "development" \in envs THEN "development"
       ELSE Undefined

\* createLdapConfigGetter: what the returned closure holds.
DefaultEnv(envs, nodeEnv) ==
  IF Cardinality(envs) = 1 THEN CHOOSE e \in envs : TRUE
  ELSE IF nodeEnv = "development" /\ "development" \in envs THEN "development"
       ELSE Undefined

createLdapConfigGetter(flat, envs, common, nodeEnv) ==
  IF flat
  THEN [flat |-> TRUE,
        single |-> readLdapEnvironmentConfig(RawBlock(common, "")),
        envConfigs |-> [e \in {} |-> NoConfig],
        defaultEnv |-> Undefined]
  ELSE [flat |-> FALSE,
        single |-> NoConfig,
        envConfigs |-> [e \in envs |-> readLdapEnvironmentConfig(RawBlock(common, e))],
        defaultEnv |-> DefaultEnv(envs, nodeEnv)]

\* getLdapConfig(req): the selected configuration, or the error it throws.
NoError == [name |-> "<none>", message |-> Txt("")]

SelectedEnv(g, reqEnv) == OrElse(reqEnv, Undefined, g.defaultEnv)

getLdapConfigError(g, reqEnv) ==
  IF g.flat THEN NoError
  ELSE LET env == SelectedEnv(g, reqEnv)
       IN IF ~Truthy(env) THEN MissingEnvError
          ELSE IF env \notin DOMAIN g.envConfigs THEN NoSuchEnvError(env)
               ELSE NoError

getLdapConfig(g, reqEnv) ==
  IF g.flat THEN g.single
  ELSE IF getLdapConfigError(g, reqEnv) = NoError
       THEN g.envConfigs[SelectedEnv(g, reqEnv)]
       ELSE NoConfig

\* ------------------------------------------------------------ directory

\* The entries a search can return, in the order the directory sends them.
Jd == << "j", "d" >>
Am == << "a", "m" >>
EntryJdoe ==
  [dn |-> "uid=jd,ou=users",
   attrs |-> [uid |-> VStr(Jd),
              mail |-> VStr(<< "j", "@", "x" >>),
              memberOf |-> VStr(<< "d", "e", "v" >>)]]
EntryJdoe2 ==
  [dn |-> "uid=jd2,ou=users",
   attrs |-> [uid |-> VArr(<< ItemStr(Jd), ItemStr(Am) >>),
              displayName |-> VOther,
              memberOf |-> VArr(<< ItemStr(<< "o", "p", "s" >>), ItemOther >>)]]
EntryNoUid ==
  [dn |-> "cn=am,ou=users",
   attrs |-> [mail |-> VArr(<< ItemOther >>)]]
Entries == {EntryJdoe, EntryJdoe2, EntryNoUid}

RECURSIVE SeqsUpTo(_, _)
SeqsUpTo(S, n) ==
  IF n = 0 THEN {<< >>}
  ELSE LET shorter == SeqsUpTo(S, n - 1)
       IN shorter \cup {Append(s, e) : s \in {t \in shorter : Len(t) = n - 1}, e \in S}

SearchResults == SeqsUpTo(Entries, MaxEntries)

\* ---------------------------------------------------------------- state

VARIABLES
  getter,        \* the closure createLdapConfigGetter returned
  req,           \* the request being handled
  pc,            \* where the handler (and the authenticator it awaits) stands
  ldapConfig,    \* the configuration getLdapConfig(req) selected
  conns,         \* the Client objects of the call, by creation: their options
  ops,           \* the call's directory operations and steps, in order
  logs,          \* the notices given to the logger
  searchEntries, \* what the search returned
  userEntry,     \* searchEntries[0]
  thrown,        \* the exception on its way out of authenticateWithLdap
  userInfo,      \* the record on its way out of authenticateWithLdap
  authResult,    \* how authenticateWithLdap settled
  resolverCalls, \* the entity names signInWithCatalogUser was called with
  res,           \* the response sent
  appConfig,     \* the Config the provider factory was created with
  calls,         \* concurrent calls of authenticateWithLdap: each one's locals
  server,        \* the Client objects concurrent calls made, in the order made
  page           \* the sign-in page: component state, localStorage, effects

vars == << getter, req, pc, ldapConfig, conns, ops, logs, searchEntries,
           userEntry, thrown,
           userInfo, authResult, resolverCalls, res,
           appConfig, calls, server, page >>

\* The submitted credentials and the request's shape.
Usernames == {Jd, << "*" >>}
Passwords == {"secret", "guess"}
BodyUsernames == Usernames \cup {UndefinedText, << >>}
BodyPasswords == Passwords \cup {Undefined, ""}
Methods == {"POST", "GET"}

NoRequest ==
  [route |-> "<none>", method |-> "", username |-> UndefinedText,
   password |-> Undefined, env |-> Undefined]

NoEntry == [dn |-> "", attrs |-> [a \in {} |-> VUndef]]

NoRecord ==
  [dn |-> "", uid |-> << >>, displayName |-> NoResult, email |-> NoResult,
   memberOf |-> NoResult, attributes |-> [a \in {} |-> NoResult]]

Pending == [kind |-> "pending", record |-> NoRecord, error |-> NoError]
Returned(record) == [kind |-> "record", record |-> record, error |-> NoError]
Rejected(error) == [kind |-> "error", record |-> NoRecord, error |-> error]

NoResponse == [status |-> 0, kind |-> "<none>", error |-> NoError,
               text |-> "", record |-> NoRecord, token |-> ""]

\* An event of the call: a directory operation on connection conn, or a step.
\* error is what the directory answered (NoError: the operation succeeded).
Op(op, conn, error) ==
  [op |-> op, conn |-> conn, ok |-> error = NoError, error |-> error,
   dn |-> "", secret |-> "", filter |-> << >>, attributes |-> << >>,
   scope |-> ""]
OpBind(conn, dn, secret, error) ==
  [Op("bind", conn, error) EXCEPT !.dn = dn, !.secret = secret]
OpSearch(conn, base, filter, attributes, error) ==
  [Op("search", conn, error) EXCEPT !.dn = base, !.filter = filter,
                                    !.attributes = attributes, !.scope = "sub"]

Log(level, event) == [level |-> level, event |-> event]

\* The raw configuration blocks of the main specification.
CommonBlocks ==
  {[url |-> url, bindDN |-> dn, bindCredentials |-> cred, searchBase |-> "",
    usernameAttribute |-> Undefined, searchFilter |-> UndefinedText,
    userAttributes |-> UndefinedList, rejectUnauthorized |-> Undefined] :
     url \in {"ldaps://d:636"},
     dn \in {Undefined, "cn=service"},
     cred \in {Undefined, "service-password"}}

\* The sign-in page before it is mounted.
Null == "<null>"

\* What localStorage holds under STORAGE_KEY: nothing, text that does not
\* parse, JSON of another shape, or a session; exp is the exp claim of the
\* session's token (NoExp when the token has no readable one).
NoExp == 0 - 1

Stored(shape, exp) == [shape |-> shape, exp |-> exp]

NothingStored == Stored("absent", NoExp)

\* The response of the fetch in handleSubmit, while its body is read.
NoFetchResponse ==
  [ok |-> FALSE, status |-> 0, json |-> "<none>", error |-> "<none>",
   message |-> "", token |-> FALSE, identity |-> FALSE, exp |-> NoExp]

NoPage ==
  [pc |-> "unmounted", username |-> << >>, password |-> "", error |-> Null,
   loading |-> FALSE, storage |-> NothingStored, now |-> 0,
   fetches |-> << >>, response |-> NoFetchResponse, signedIn |-> << >>,
   signOut |-> "idle", logouts |-> << >>]

\* The shapes of a provider configuration: flat (a top-level url) or scoped
\* by environment, and the NODE_ENV of the process.
ConfigShapes ==
  {shape \in [flat : BOOLEAN, envs : SUBSET EnvNames, nodeEnv : NodeEnvs] :
     shape.flat => shape.envs = {}}

\* createLdapProviderFactory's closure over a configuration.
Configured(shapes, blocks) ==
  \E shape \in shapes, common \in blocks :
    /\ appConfig = [flat |-> shape.flat, envs |-> shape.envs,
                    common |-> common, nodeEnv |-> shape.nodeEnv]
    /\ getter = createLdapConfigGetter(shape.flat, shape.envs, common,
                                       shape.nodeEnv)

\* Nothing has been requested or called yet.
Quiescent ==
  /\ req = NoRequest
  /\ pc = "idle"
  /\ ldapConfig = NoConfig
  /\ conns = << >>
  /\ ops = << >>
  /\ logs = << >>
  /\ searchEntries = << >>
  /\ userEntry = NoEntry
  /\ thrown = NoError
  /\ userInfo = NoRecord
  /\ authResult = Pending
  /\ resolverCalls = << >>
  /\ res = NoResponse
  /\ calls = << >>
  /\ server = << >>

Unmounted == page = NoPage

Init == Configured(ConfigShapes, CommonBlocks) /\ Quiescent /\ Unmounted

\* ------------------------------------------------------------- responses

TextResponse(status, text) ==
  [NoResponse EXCEPT !.status = status, !.kind = "error-text", !.text = text]

MissingCredentials == "Missing username or password in request body"
ExpectsPost ==
  "LDAP auth expects POST /handler/frame with a JSON body { username, password }"

\* The catch block of handleCredentialAuth: every error becomes a 401 whose
\* body carries the error's own message (everything thrown here is an Error
\* instance, so the fallback text 'LDAP authentication failed' is never used).
ErrorStatus_ByOrigin(error) == IF error \in DirErrors THEN 500 ELSE 401
ErrorStatus(error) == 401
ErrorMessage(error) == error.message

\* A body that passes on the name of the error caught.
ErrorName_OfError(error) == error.name

\* error: { name: 'AuthenticationError', message }
ErrorName(error) == "AuthenticationError"

ErrorResponse(error) ==
  [NoResponse EXCEPT !.status = ErrorStatus(error),
                     !.kind = "error-object",
                     !.error = [name |-> ErrorName(error),
                                message |-> ErrorMessage(error)]]

\* The 200 response: providerInfo { uid, memberOf }, profile { email,
\* displayName } and the Backstage identity's token.
IdentityResponse(info, token) ==
  [NoResponse EXCEPT !.status = 200,
                     !.kind = "identity",
                     !.record = [NoRecord EXCEPT !.uid = info.uid,
                                                 !.memberOf = info.memberOf,
                                                 !.email = info.email,
                                                 !.displayName = info.displayName],
                     !.token = token]

\* ------------------------------------------------------ authenticateWithLdap

LdapsUrls == {"ldaps://d:636"}

\* baseClientOptions: tlsOptions only for an ldaps:// URL.
BaseClientOptions(config) ==
  [url |-> config.url,
   tlsOptions |-> IF config.url \in LdapsUrls
                  THEN (IF config.tls.rejectUnauthorized THEN "reject" ELSE "accept")
                  ELSE "<none>"]

\* A second Client made from the URL alone.
UserClientOptions_UrlOnly(config) == [url |-> config.url, tlsOptions |-> "<none>"]

\* new Client(baseClientOptions) for the user bind: the same options object.
UserClientOptions(config) == BaseClientOptions(config)

\* A service bind whenever a DN is configured, secret or not.
HasServiceIdentity_DnOnly(config) == Truthy(config.bindDN)

\* if (config.bindDN && config.bindCredentials)
HasServiceIdentity(config) ==
  Truthy(config.bindDN) /\ Truthy(config.bindCredentials)

\* The connection each Client variable names.
Client == 1
UserClient == 2

\* The search the call sends on the first connection.
SearchOp(config, username, error) ==
  OpSearch(Client, config.searchBase,
           BuildFilter(config.searchFilter, username),
           << config.usernameAttribute >> \o config.userAttributes, error)

ServiceBindFailure_AsInvalidCredentials(username, error) ==
  InvalidCredentialsError(username)

\* The service bind stands in no try/catch of its own: what the directory
\* answered is what the call throws.
ServiceBindFailure(username, error) == error

UserBindFailure_Swallowed(username, error) == NoError
UserBindFailure_Rethrown(username, error) == error

\* The catch of the user bind: what is thrown in place of the directory's error.
UserBindFailure(username, error) == InvalidCredentialsError(username)

SearchThrows_InvalidCredentials(username, entries) ==
  IF Len(entries) = 0 THEN InvalidCredentialsError(username) ELSE NoError

\* Where the call goes when the search returned: no entry throws, any
\* other number of entries goes on to close the first connection.
SearchThrows(username, entries) ==
  IF Len(entries) = 0 THEN UserNotFoundError(username) ELSE NoError

AfterSearch_SkipClose == "userBind"

\* With an entry in hand the call closes the first connection (step 3)
\* before anything else.
AfterSearch == "unbindClient"

UserBindConn_SameClient == Client

\* The connection the user bind is sent on.
UserBindConn == UserClient

ReleaseUserClient_OnlyOnSuccess(exception, error) ==
  IF exception = NoError THEN << Op("unbind", UserClient, error) >> ELSE << >>

\* The inner finally: userClient.unbind() whatever the bind did.
ReleaseUserClient(exception, error) == << Op("unbind", UserClient, error) >>

OuterCleanup_OnlyOnSuccess(exception, error) ==
  IF exception = NoError THEN << Op("unbind", Client, error) >> ELSE << >>

\* The outer finally: client.unbind() whatever happened before.
OuterCleanup(exception, error) == << Op("unbind", Client, error) >>

\* Step 4: the record built from the matched entry.
\* A failed service bind followed by an anonymous search all the same.
AfterFailedServiceBind_SearchesAnonymously == "search"

\* client.bind sits in the outer try without a catch of its own: its
\* rejection leaves the try and only the outer finally still runs.
AfterFailedServiceBind == "finally"

\* if (searchEntries.length > 1) logger.warn(...): one warning, no failure.
MultipleMatchWarning(entries) ==
  IF Len(entries) > 1 THEN << Log("warn", "multiple-users") >> ELSE << >>

\* The last of the matched entries instead of the first.
FirstMatch_Last(entries) == entries[Len(entries)]

\* const userEntry = searchEntries[0]
FirstMatch(entries) == entries[1]

\* A rejected userClient.unbind() replacing whatever the try block produced.
UserUnbindFailure_Escalates(exception, error) ==
  IF error = NoError THEN exception ELSE error

\* userClient.unbind().catch(() => {}): the rejection is swallowed, so the
\* pending exception (or its absence) is what leaves the inner finally.
UserUnbindFailure(exception, error) == exception

\* A record whose uid is the submitted username, whatever the entry holds.
BuildUserInfo_UidFromRequest(entry, username, config) ==
  [dn |-> entry.dn,
   uid |-> username,
   displayName |-> extractStringAttribute(entry, "displayName"),
   email |-> extractStringAttribute(entry, "mail"),
   memberOf |-> extractStringArrayAttribute(entry, "memberOf"),
   attributes |-> extractAllAttributes(entry, config.userAttributes)]

BuildUserInfo(entry, username, config) ==
  LET uid == extractStringAttribute(entry, config.usernameAttribute)
  IN [dn |-> entry.dn,
      uid |-> IF uid.t = "undefined" THEN username ELSE uid.s,
      displayName |-> extractStringAttribute(entry, "displayName"),
      email |-> extractStringAttribute(entry, "mail"),
      memberOf |-> extractStringArrayAttribute(entry, "memberOf"),
      attributes |-> extractAllAttributes(entry, config.userAttributes)]

\* How the call settles once the outer finally has run.
Settle(exception, record) ==
  IF exception = NoError THEN Returned(record) ELSE Rejected(exception)

\* ---------------------------------------------------------------- actions

\* The handlers keep nothing from one request to the next (the closure's
\* configuration is read-only), so a behaviour follows one request from its
\* arrival to its response.
Respond(route, method, response) ==
  /\ pc = "idle"
  /\ req' = [NoRequest EXCEPT !.route = route, !.method = method]
  /\ res' = response
  /\ pc' = "done"
  /\ UNCHANGED << appConfig, calls, server, page >>
  /\ UNCHANGED << getter, ldapConfig, conns, ops, logs, searchEntries,
                  userEntry, thrown, userInfo, authResult, resolverCalls >>

\* start: always 405.
Start == \E m \in Methods : Respond("start", m, TextResponse(405, ExpectsPost))

\* refresh: always 501.
Refresh ==
  \E m \in Methods :
    Respond("refresh", m,
            TextResponse(501, "Token refresh is managed by the Backstage session layer"))

\* logout: always 200 { ok: true }.
Logout ==
  \E m \in Methods :
    Respond("logout", m, [NoResponse EXCEPT !.status = 200, !.kind = "ok"])

\* A validation that rejects absent fields only and lets empty ones through.
EarlyResponse_AbsentOnly(r) ==
  IF r.method # "POST" THEN TextResponse(405, ExpectsPost)
  ELSE IF r.username = UndefinedText \/ r.password = Undefined
       THEN TextResponse(400, MissingCredentials)
       ELSE IF getLdapConfigError(getter, r.env) # NoError
            THEN ErrorResponse(getLdapConfigError(getter, r.env))
            ELSE NoResponse

\* A frameHandler that handles the credentials of any method.
EarlyResponse_AnyMethod(r) ==
  IF ~TruthyText(r.username) \/ ~Truthy(r.password)
  THEN TextResponse(400, MissingCredentials)
  ELSE IF getLdapConfigError(getter, r.env) # NoError
       THEN ErrorResponse(getLdapConfigError(getter, r.env))
       ELSE NoResponse

\* The handler's own answers: wrong method, missing credentials, or the
\* error getLdapConfig throws (caught by handleCredentialAuth's catch).
EarlyResponse(r) ==
  IF r.method # "POST" THEN TextResponse(405, ExpectsPost)
  ELSE IF ~TruthyText(r.username) \/ ~Truthy(r.password)
       THEN TextResponse(400, MissingCredentials)
       ELSE IF getLdapConfigError(getter, r.env) # NoError
            THEN ErrorResponse(getLdapConfigError(getter, r.env))
            ELSE NoResponse

\* authenticateWithLdap up to its first await: the Client is made and, with a
\* service identity, client.bind is called; without one, client.search.
BeginAuthenticate(config) ==
  /\ ldapConfig' = config
  /\ conns' = << BaseClientOptions(config) >>
  /\ ops' = << Op("open", Client, NoError) >>
  /\ IF HasServiceIdentity(config)
     THEN /\ logs' = << Log("info", "service-bind") >>
          /\ pc' = "serviceBind"
     ELSE /\ logs' = << Log("info", "search") >>
          /\ pc' = "search"

\* frameHandler up to its first await: the method check, handleCredentialAuth's
\* validation and configuration lookup, and authenticateWithLdap up to the
\* service bind or, without a service identity, up to the search.
FrameHandler ==
  /\ pc = "idle"
  /\ \E method \in Methods, username \in BodyUsernames,
        password \in BodyPasswords, env \in RequestEnvs :
       LET r == [route |-> "frameHandler", method |-> method,
                 username |-> username, password |-> password, env |-> env]
           early == EarlyResponse(r)
           config == getLdapConfig(getter, env)
       IN /\ req' = r
          /\ IF early # NoResponse
             THEN /\ res' = early
                  /\ pc' = "done"
                  /\ logs' = IF early.status = 401
                             THEN << Log("error", "authentication-failed") >>
                             ELSE << >>
                  /\ UNCHANGED << ldapConfig, conns, ops >>
             ELSE /\ res' = NoResponse
                  /\ BeginAuthenticate(config)
  /\ UNCHANGED << appConfig, calls, server, page >>
  /\ UNCHANGED << getter, searchEntries, userEntry, thrown, userInfo,
                  authResult, resolverCalls >>

\* await client.bind(config.bindDN, config.bindCredentials) settles.
ServiceBindReturns ==
  /\ pc = "serviceBind"
  /\ \E outcome \in {NoError} \cup DirErrors :
       /\ ops' = Append(ops, OpBind(Client, ldapConfig.bindDN,
                                    ldapConfig.bindCredentials, outcome))
       /\ IF outcome = NoError
          THEN /\ logs' = Append(logs, Log("info", "search"))
               /\ thrown' = NoError
               /\ pc' = "search"
          ELSE /\ logs' = logs
               /\ thrown' = ServiceBindFailure(req.username, outcome)
               /\ pc' = AfterFailedServiceBind
  /\ UNCHANGED << appConfig, calls, server, page >>
  /\ UNCHANGED << getter, req, ldapConfig, conns, searchEntries, userEntry,
                  userInfo, authResult, resolverCalls, res >>

\* await client.search(...) settles; with an entry in hand the first one is
\* taken and client.unbind() is called.
SearchReturnsFrom(results) ==
  /\ pc = "search"
  /\ \/ \E error \in DirErrors :
          /\ ops' = Append(ops, SearchOp(ldapConfig, req.username, error))
          /\ thrown' = error
          /\ pc' = "finally"
          /\ UNCHANGED << logs, searchEntries, userEntry >>
     \/ \E entries \in results :
          /\ ops' = Append(ops, SearchOp(ldapConfig, req.username, NoError))
          /\ searchEntries' = entries
          /\ thrown' = SearchThrows(req.username, entries)
          /\ IF SearchThrows(req.username, entries) # NoError
             THEN /\ pc' = "finally"
                  /\ UNCHANGED << logs, userEntry >>
             ELSE /\ logs' = logs \o MultipleMatchWarning(entries)
                  /\ userEntry' = FirstMatch(entries)
                  /\ pc' = AfterSearch
  /\ UNCHANGED << appConfig, calls, server, page >>
  /\ UNCHANGED << getter, req, ldapConfig, conns, userInfo, authResult,
                  resolverCalls, res >>

SearchReturns == SearchReturnsFrom(SearchResults)

\* await client.unbind() (step 3) settles; on success the second Client is
\* made and userClient.bind(userDN, password) is called.
ClientUnbindReturns ==
  /\ pc = "unbindClient"
  /\ \E outcome \in {NoError} \cup UnbindErrors :
       /\ thrown' = outcome
       /\ IF outcome = NoError
          THEN /\ ops' = ops \o << Op("unbind", Client, NoError),
                                   Op("open", UserClient, NoError) >>
               /\ conns' = Append(conns, UserClientOptions(ldapConfig))
               /\ pc' = "userBind"
          ELSE /\ ops' = Append(ops, Op("unbind", Client, outcome))
               /\ conns' = conns
               /\ pc' = "finally"
  /\ UNCHANGED << appConfig, calls, server, page >>
  /\ UNCHANGED << getter, req, ldapConfig, logs, searchEntries, userEntry,
                  userInfo, authResult, resolverCalls, res >>

\* await userClient.bind(userDN, password) settles: the catch replaces the
\* directory's error; the inner finally then calls userClient.unbind().
UserBindReturns ==
  /\ pc = "userBind"
  /\ \E outcome \in {NoError} \cup DirErrors :
       /\ ops' = Append(ops, OpBind(UserBindConn, userEntry.dn, req.password,
                                    outcome))
       /\ IF outcome = NoError
          THEN /\ logs' = Append(logs, Log("info", "authenticated"))
               /\ thrown' = NoError
          ELSE /\ logs' = logs
               /\ thrown' = UserBindFailure(req.username, outcome)
  /\ pc' = "userUnbind"
  /\ UNCHANGED << appConfig, calls, server, page >>
  /\ UNCHANGED << getter, req, ldapConfig, conns, searchEntries, userEntry,
                  userInfo, authResult, resolverCalls, res >>

\* await userClient.unbind().catch(() => {}) settles: a failure is swallowed.
\* Without a pending exception step 4 builds the record and returns it.
UserUnbindReturns ==
  /\ pc = "userUnbind"
  /\ \E outcome \in {NoError} \cup UnbindErrors :
       LET pending == UserUnbindFailure(thrown, outcome)
       IN /\ thrown' = pending
          /\ ops' = ops \o ReleaseUserClient(thrown, outcome)
                        \o (IF pending = NoError
                            THEN << Op("extract", 0, NoError),
                                    Op("return", 0, NoError) >>
                            ELSE << >>)
          /\ userInfo' = IF pending = NoError
                         THEN BuildUserInfo(userEntry, req.username, ldapConfig)
                         ELSE NoRecord
  /\ pc' = "finally"
  /\ UNCHANGED << appConfig, calls, server, page >>
  /\ UNCHANGED << getter, req, ldapConfig, conns, logs, searchEntries,
                  userEntry, authResult, resolverCalls, res >>

\* The submitted username as the catalog entity's name.
ResolverEntityName_Submitted(info, username) == username

\* signInWithCatalogUser({ entityRef: { name: userInfo.uid } })
ResolverEntityName(info, username) == info.uid

\* The outer finally: await client.unbind().catch(() => {}) settles and the
\* call settles with it.  handleCredentialAuth goes on: to the sign-in
\* resolver with the record's uid, or into its catch.
FinallyUnbindReturns ==
  /\ pc = "finally"
  /\ \E outcome \in {NoError} \cup UnbindErrors :
       ops' = ops \o OuterCleanup(thrown, outcome)
  /\ authResult' = Settle(thrown, userInfo)
  /\ IF req.route = "authenticateWithLdap"
     THEN /\ pc' = "done"
          /\ UNCHANGED << logs, res, resolverCalls >>
     ELSE IF Settle(thrown, userInfo).kind = "record"
     THEN /\ resolverCalls' =
               Append(resolverCalls, ResolverEntityName(userInfo, req.username))
          /\ pc' = "resolve"
          /\ UNCHANGED << logs, res >>
     ELSE /\ logs' = Append(logs, Log("error", "authentication-failed"))
          /\ res' = ErrorResponse(Settle(thrown, userInfo).error)
          /\ pc' = "done"
          /\ UNCHANGED resolverCalls
  /\ UNCHANGED << appConfig, calls, server, page >>
  /\ UNCHANGED << getter, req, ldapConfig, conns, searchEntries, userEntry,
                  thrown, userInfo >>

\* await resolverContext.signInWithCatalogUser(...) settles.
ResolverReturns ==
  /\ pc = "resolve"
  /\ \/ /\ res' = IdentityResponse(authResult.record, "backstage-token")
        /\ UNCHANGED logs
     \/ /\ res' = ErrorResponse(ResolverFailed)
        /\ logs' = Append(logs, Log("error", "authentication-failed"))
  /\ pc' = "done"
  /\ UNCHANGED << appConfig, calls, server, page >>
  /\ UNCHANGED << getter, req, ldapConfig, conns, ops, searchEntries,
                  userEntry, thrown, userInfo, authResult, resolverCalls >>

Next ==
  \/ Start
  \/ Refresh
  \/ Logout
  \/ FrameHandler
  \/ ServiceBindReturns
  \/ SearchReturns
  \/ ClientUnbindReturns
  \/ UserBindReturns
  \/ UserUnbindReturns
  \/ FinallyUnbindReturns
  \/ ResolverReturns

Spec == Init /\ [][Next]_vars

\* authenticateWithLdap called on its own, as ldapClient.test.ts calls it:
\* no handler stands in front of it, so the arguments arrive unvalidated.
ClientConfigs == {readLdapEnvironmentConfig(common) : common \in CommonBlocks}

DirectPasswords == {"secret", ""}

AuthenticateDirect ==
  /\ pc = "idle"
  /\ \E username \in Usernames, password \in DirectPasswords,
        config \in ClientConfigs :
       /\ req' = [route |-> "authenticateWithLdap", method |-> "",
                  username |-> username, password |-> password,
                  env |-> Undefined]
       /\ BeginAuthenticate(config)
  /\ UNCHANGED << appConfig, calls, server, page >>
  /\ UNCHANGED << getter, searchEntries, userEntry, thrown, userInfo,
                  authResult, resolverCalls, res >>

\* A flat configuration; a direct call of authenticateWithLdap has no
\* provider around it and gets its configuration as an argument.
DirectShapes == {[flat |-> TRUE, envs |-> {}, nodeEnv |-> "production"]}

AnonymousBlocks ==
  {c \in CommonBlocks : c.bindDN = Undefined /\ c.bindCredentials = Undefined}

InitDirect ==
  Configured(DirectShapes, AnonymousBlocks) /\ Quiescent /\ Unmounted

NextDirect ==
  \/ AuthenticateDirect
  \/ ServiceBindReturns
  \/ SearchReturns
  \/ ClientUnbindReturns
  \/ UserBindReturns
  \/ UserUnbindReturns
  \/ FinallyUnbindReturns

SpecDirect == InitDirect /\ [][NextDirect]_vars

\* authenticateWithLdap up to the return of its search, called with any
\* username over the characters the filter construction treats specially.
MaxUsernameLen == 2

FilterAlphabet ==
  {"a", "\\", "*", "(", ")", "\"", NUL, "/", "$", "&", Backquote, "'"}

FilterUsernames == SeqsUpTo(FilterAlphabet, MaxUsernameLen)

FilterTemplates ==
  {DefaultSearchFilter,
   << "(", "&", "(", "o", "=", "x", ")", "(", "c", "n", "=" >>
     \o Placeholder \o << ")", ")" >>,
   << "(", "|", "(", "u", "=" >> \o Placeholder
     \o << ")", "(", "c", "=" >> \o Placeholder \o << ")", ")" >>}

AuthenticateFilter ==
  /\ pc = "idle"
  /\ \E username \in FilterUsernames, searchFilter \in FilterTemplates :
       /\ req' = [route |-> "authenticateWithLdap", method |-> "",
                  username |-> username, password |-> "secret",
                  env |-> Undefined]
       /\ BeginAuthenticate([NoConfig EXCEPT !.searchFilter = searchFilter])
  /\ UNCHANGED << appConfig, calls, server, page >>
  /\ UNCHANGED << getter, searchEntries, userEntry, thrown, userInfo,
                  authResult, resolverCalls, res >>

NextFilter ==
  \/ AuthenticateFilter
  \/ SearchReturns

SpecFilter == InitDirect /\ [][NextFilter]_vars

\* authenticateWithLdap against a directory whose single matched entry holds
\* attribute values of every shape ldapts can hand over: a string, an array
\* of strings and other items (Buffers) of up to MaxItems items, another type,
\* or nothing.
MaxItems == 2

AttributeItems == {ItemStr(Jd), ItemStr(Am), ItemOther}

AttributeValues ==
  {VStr(Jd), VOther, VUndef}
    \cup {VArr(items) : items \in SeqsUpTo(AttributeItems, MaxItems)}

ExtractEntries ==
  {[dn |-> "uid=x,ou=users",
    attrs |-> [uid |-> u, memberOf |-> m, cn |-> VStr(Am)]] :
     u \in AttributeValues, m \in AttributeValues}

ExtractResults == {<< entry >> : entry \in ExtractEntries}

ExtractConfigs ==
  {NoConfig, [NoConfig EXCEPT !.userAttributes = << "uid", "sn" >>]}

AuthenticateExtract ==
  /\ pc = "idle"
  /\ \E username \in Usernames, config \in ExtractConfigs :
       /\ req' = [route |-> "authenticateWithLdap", method |-> "",
                  username |-> username, password |-> "secret",
                  env |-> Undefined]
       /\ BeginAuthenticate(config)
  /\ UNCHANGED << appConfig, calls, server, page >>
  /\ UNCHANGED << getter, searchEntries, userEntry, thrown, userInfo,
                  authResult, resolverCalls, res >>

ExtractSearchReturns == SearchReturnsFrom(ExtractResults)

NextExtract ==
  \/ AuthenticateExtract
  \/ ExtractSearchReturns
  \/ ClientUnbindReturns
  \/ UserBindReturns
  \/ UserUnbindReturns
  \/ FinallyUnbindReturns

SpecExtract == InitDirect /\ [][NextExtract]_vars

\* The provider over configurations that set or leave out each optional
\* field, with an encrypted or a plain URL.
ConfigBlocks ==
  {[url |-> url, bindDN |-> service[1], bindCredentials |-> service[2],
    searchBase |-> "", usernameAttribute |-> usernameAttribute,
    searchFilter |-> searchFilter, userAttributes |-> userAttributes,
    rejectUnauthorized |-> rejectUnauthorized] :
     url \in {"ldaps://d:636", "ldap://d:389"},
     service \in {<< Undefined, Undefined >>,
                  << "cn=service", "service-password" >>},
     usernameAttribute \in {Undefined, "cn"},
     searchFilter \in {UndefinedText,
                       << "(", "c", "n", "=" >> \o Placeholder \o << ")" >>},
     userAttributes \in {UndefinedList, << "cn" >>},
     rejectUnauthorized \in {Undefined, "true", "false"}}

InitConfig == Configured(DirectShapes, ConfigBlocks) /\ Quiescent /\ Unmounted

NextConfig ==
  \/ FrameHandler
  \/ ServiceBindReturns
  \/ SearchReturns
  \/ ClientUnbindReturns
  \/ UserBindReturns
  \/ UserUnbindReturns
  \/ FinallyUnbindReturns

SpecConfig == InitConfig /\ [][NextConfig]_vars

\* ---------------------------------------------------------- sign-in page

\* Date.now() and the exp claims of tokens, in minutes; isExpired's margin.
RefreshMargin == 5

Now == 12

TokenExps == {NoExp, 0, Now - 2, Now + RefreshMargin - 1,
              Now + RefreshMargin, Now + RefreshMargin + 1}

StoredValues ==
  {NothingStored, Stored("unparseable", NoExp), Stored("incomplete", NoExp)}
    \cup {Stored("session", exp) : exp \in TokenExps}

\* safeParseStoredSession(value) returns a session.
ParsesToSession(stored) == stored.shape = "session"

\* isExpired(token): no readable exp (or exp 0) counts as not expiring.
isExpired(exp, now) ==
  IF exp = NoExp \/ exp = 0 THEN FALSE ELSE now > exp - RefreshMargin

\* String.prototype.trim over the characters typed.
RECURSIVE TrimStart(_)
TrimStart(text) ==
  IF text # << >> /\ Head(text) = " " THEN TrimStart(Tail(text)) ELSE text

RECURSIVE TrimEnd(_)
TrimEnd(text) ==
  IF text # << >> /\ text[Len(text)] = " "
  THEN TrimEnd(SubSeq(text, 1, Len(text) - 1))
  ELSE text

\* A submission validated and sent as typed.
Trim_AsTyped(text) == text

Trim(text) == TrimEnd(TrimStart(text))

MaxTyped == 2

\* The submissions of one behaviour that get as far as a request.
MaxFetches == 1

TypedUsernames == SeqsUpTo({"a", " "}, MaxTyped)

TypedPasswords == {"", "p", " "}

PleaseEnterBoth == "Please enter both username and password"

\* What fetch can settle with: a rejection, or a response whose body is no
\* JSON or is JSON with or without an error, a token and an identity.  The
\* error of a body is a text, an object with a message (which may be the
\* empty text) or an object without one.
FetchResponse(ok, json, error, token, identity) ==
  [NoFetchResponse EXCEPT
     !.ok = ok, !.status = IF ok THEN 200 ELSE 401,
     !.json = json, !.error = error,
     !.message = CASE error = "object-with-message" -> "Invalid credentials"
                   [] error = "text" -> "Missing username or password in request body"
                   [] OTHER -> "",
     !.token = token, !.identity = identity,
     !.exp = IF token THEN Now + RefreshMargin + 1 ELSE NoExp]

FetchResponses ==
  {FetchResponse(FALSE, "unparseable", "<none>", FALSE, FALSE),
   FetchResponse(TRUE, "unparseable", "<none>", FALSE, FALSE),
   FetchResponse(TRUE, "object", "<none>", TRUE, TRUE),
   FetchResponse(TRUE, "object", "<none>", FALSE, TRUE),
   FetchResponse(TRUE, "object", "<none>", TRUE, FALSE),
   FetchResponse(FALSE, "object", "<none>", TRUE, TRUE)}
    \cup {FetchResponse(ok, "object", error, ok, ok) :
            ok \in BOOLEAN,
            error \in {"text", "object-with-message",
                       "object-with-empty-message", "object"}}

\* The sign-in page is rendered: useState's initial values, the useMemo that
\* reads the stored session and the useEffect that signs in from it.
Mount ==
  /\ page.pc = "unmounted"
  /\ LET stored == page.storage
         usable == ParsesToSession(stored) /\ ~isExpired(stored.exp, page.now)
     IN page' = [page EXCEPT
                   !.pc = "form",
                   !.username = << >>,
                   !.password = "",
                   !.error = Null,
                   !.loading = FALSE,
                   !.storage = IF ParsesToSession(stored)
                                  /\ isExpired(stored.exp, page.now)
                               THEN NothingStored ELSE stored,
                   !.signedIn = IF usable
                                THEN Append(page.signedIn,
                                            [from |-> "storage", session |-> stored])
                                ELSE page.signedIn]
  /\ UNCHANGED << getter, req, pc, ldapConfig, conns, ops, logs,
                  searchEntries, userEntry, thrown, userInfo, authResult,
                  resolverCalls, res, appConfig, calls, server >>

\* onChange of the username field (disabled while loading).
ChangeUsername ==
  /\ page.pc = "form"
  /\ ~page.loading
  /\ \E text \in TypedUsernames : page' = [page EXCEPT !.username = text]
  /\ UNCHANGED << getter, req, pc, ldapConfig, conns, ops, logs,
                  searchEntries, userEntry, thrown, userInfo, authResult,
                  resolverCalls, res, appConfig, calls, server >>

\* onChange of the password field (disabled while loading).
ChangePassword ==
  /\ page.pc = "form"
  /\ ~page.loading
  /\ \E text \in TypedPasswords : page' = [page EXCEPT !.password = text]
  /\ UNCHANGED << getter, req, pc, ldapConfig, conns, ops, logs,
                  searchEntries, userEntry, thrown, userInfo, authResult,
                  resolverCalls, res, appConfig, calls, server >>

\* onClose of the error alert.
CloseError ==
  /\ page.pc = "form"
  /\ page.error # Null
  /\ page' = [page EXCEPT !.error = Null]
  /\ UNCHANGED << getter, req, pc, ldapConfig, conns, ops, logs,
                  searchEntries, userEntry, thrown, userInfo, authResult,
                  resolverCalls, res, appConfig, calls, server >>

\* handleSubmit up to its first await (the submit button is disabled while
\* loading): the validation, then setLoading(true) and getBaseUrl('auth').
Submit ==
  /\ page.pc = "form"
  /\ ~page.loading
  /\ IF Trim(page.username) = << >> \/ page.password = ""
     THEN page' = [page EXCEPT !.error = PleaseEnterBoth]
     ELSE /\ Len(page.fetches) < MaxFetches
          /\ page' = [page EXCEPT !.error = Null, !.loading = TRUE,
                                  !.pc = "discovery"]
  /\ UNCHANGED << getter, req, pc, ldapConfig, conns, ops, logs,
                  searchEntries, userEntry, thrown, userInfo, authResult,
                  resolverCalls, res, appConfig, calls, server >>

\* A catch without the finally: the loading state stays set.
Failed_StillLoading(message) ==
  [page EXCEPT !.error = message, !.pc = "form", !.response = NoFetchResponse]

\* The catch and finally of handleSubmit: the message is shown and the
\* loading state cleared.
Failed(message) ==
  [page EXCEPT !.error = message, !.loading = FALSE, !.pc = "form",
               !.response = NoFetchResponse]

\* await discoveryApi.getBaseUrl('auth') settles; fetch is called with the
\* trimmed username and the password.
DiscoveryReturns ==
  /\ page.pc = "discovery"
  /\ \/ page' = Failed("No base URL")
     \/ page' = [page EXCEPT
                   !.pc = "fetch",
                   !.fetches = Append(page.fetches,
                                      [method |-> "POST",
                                       path |-> "/ldap/handler/frame",
                                       username |-> Trim(page.username),
                                       password |-> page.password])]
  /\ UNCHANGED << getter, req, pc, ldapConfig, conns, ops, logs,
                  searchEntries, userEntry, thrown, userInfo, authResult,
                  resolverCalls, res, appConfig, calls, server >>

\* await fetch(...) settles: a rejection goes to the catch, a response to
\* the reading of its body.
FetchReturns ==
  /\ page.pc = "fetch"
  /\ \/ page' = Failed("Failed to fetch")
     \/ \E response \in FetchResponses :
          page' = [page EXCEPT !.pc = "body", !.response = response]
  /\ UNCHANGED << getter, req, pc, ldapConfig, conns, ops, logs,
                  searchEntries, userEntry, thrown, userInfo, authResult,
                  resolverCalls, res, appConfig, calls, server >>

\* body.error?.message ?? body.error ?? fallback, as the Error's message.
ErrorText(response, fallback) ==
  CASE response.error = "object-with-message" -> response.message
    [] response.error = "object-with-empty-message" -> response.message
    [] response.error = "text" -> response.message
    [] response.error = "object" -> "[object Object]"
    [] OTHER -> fallback

\* await response.json() settles, and the rest of handleSubmit runs: the
\* error of a response that is not ok, a body that is no JSON or has an
\* error, a missing token or identity; otherwise the session is stored, the
\* password cleared and onSignInSuccess called.
BodyReturns ==
  /\ page.pc = "body"
  /\ LET response == page.response
     IN IF ~response.ok
        THEN page' = Failed(IF response.json = "unparseable"
                            THEN "Authentication failed (401)"
                            ELSE ErrorText(response, "Authentication failed (401)"))
        ELSE IF response.json = "unparseable"
        THEN page' = Failed("Unexpected token in JSON")
        ELSE IF response.error # "<none>"
        THEN page' = Failed(ErrorText(response, ""))
        ELSE IF ~response.token \/ ~response.identity
        THEN page' = Failed("Authentication succeeded but no identity was returned")
        ELSE page' = [page EXCEPT
                        !.storage = Stored("session", response.exp),
                        !.password = "",
                        !.signedIn = Append(page.signedIn,
                                            [from |-> "response",
                                             session |-> Stored("session",
                                                                response.exp)]),
                        !.loading = FALSE,
                        !.pc = "form",
                        !.response = NoFetchResponse]
  /\ UNCHANGED << getter, req, pc, ldapConfig, conns, ops, logs,
                  searchEntries, userEntry, thrown, userInfo, authResult,
                  resolverCalls, res, appConfig, calls, server >>

\* A signOut that removes the stored session only once the logout is through.
StoredAfterSignOutCall_Deferred(stored) == stored

\* localStorage.removeItem(STORAGE_KEY) is signOut's first statement.
StoredAfterSignOutCall(stored) == NothingStored

\* signOut() of an identity the page handed to onSignInSuccess, up to its
\* first await: the stored session is removed and getBaseUrl('auth') called.
SignOut ==
  /\ page.pc # "unmounted"
  /\ page.signedIn # << >>
  /\ page.signOut = "idle"
  /\ page' = [page EXCEPT !.storage = StoredAfterSignOutCall(@),
                          !.signOut = "discovery"]
  /\ UNCHANGED << getter, req, pc, ldapConfig, conns, ops, logs,
                  searchEntries, userEntry, thrown, userInfo, authResult,
                  resolverCalls, res, appConfig, calls, server >>

\* await this.discoveryApi.getBaseUrl('auth') settles: a rejection is caught
\* and ignored; otherwise the logout request is sent.
SignOutDiscoveryReturns ==
  /\ page.signOut = "discovery"
  /\ \/ page' = [page EXCEPT !.signOut = "resolved"]
     \/ page' = [page EXCEPT
                   !.signOut = "fetch",
                   !.logouts = Append(@, [method |-> "POST",
                                          path |-> "/ldap/logout",
                                          outcome |-> "pending"])]
  /\ UNCHANGED << getter, req, pc, ldapConfig, conns, ops, logs,
                  searchEntries, userEntry, thrown, userInfo, authResult,
                  resolverCalls, res, appConfig, calls, server >>

\* await fetch(.../ldap/logout) settles: with a response of any status or
\* with a rejection, which the catch ignores.
SignOutFetchReturns ==
  /\ page.signOut = "fetch"
  /\ \E outcome \in {"ok", "not-ok", "rejected"} :
       page' = [page EXCEPT !.signOut = "resolved",
                            !.logouts[Len(page.logouts)].outcome = outcome]
  /\ UNCHANGED << getter, req, pc, ldapConfig, conns, ops, logs,
                  searchEntries, userEntry, thrown, userInfo, authResult,
                  resolverCalls, res, appConfig, calls, server >>

\* The application is loaded anew after the sign-out: the page's component
\* state is gone, localStorage is what it was.
Reload ==
  /\ page.pc = "form"
  /\ ~page.loading
  /\ page.signOut = "resolved"
  /\ page' = [page EXCEPT !.pc = "unmounted", !.signOut = "reloaded"]
  /\ UNCHANGED << getter, req, pc, ldapConfig, conns, ops, logs,
                  searchEntries, userEntry, thrown, userInfo, authResult,
                  resolverCalls, res, appConfig, calls, server >>

\* The backend is idle; the browser holds whatever an earlier visit stored.
InitPage ==
  /\ Configured(DirectShapes, AnonymousBlocks)
  /\ Quiescent
  /\ \E stored \in StoredValues :
       page = [NoPage EXCEPT !.storage = stored, !.now = Now]

NextPage ==
  \/ Mount
  \/ ChangeUsername
  \/ ChangePassword
  \/ CloseError
  \/ Submit
  \/ DiscoveryReturns
  \/ FetchReturns
  \/ BodyReturns

SpecPage == InitPage /\ [][NextPage]_vars

\* The page mounted over a stored session, the identity it handed over
\* signing out, and the application loaded anew.
NextSignOut ==
  \/ Mount
  \/ ChangeUsername
  \/ ChangePassword
  \/ SignOut
  \/ SignOutDiscoveryReturns
  \/ SignOutFetchReturns
  \/ Reload

SpecSignOut == InitPage /\ [][NextSignOut]_vars

\* ------------------------------------------ concurrent authenticateWithLdap
\* Several calls of authenticateWithLdap in flight at once: Node runs each
\* call up to its next await, so the calls interleave at the returns of
\* their directory operations.  Each element of calls holds one call's
\* arguments and locals; server holds the Client objects in the order they
\* were made, each with the call that made it and the calls that used it.
MaxCalls == 2

ConcurrentBlocks ==
  {c \in CommonBlocks : Truthy(c.bindDN) = Truthy(c.bindCredentials)}

ConcurrentUsernames == {Jd, Am}

ConcurrentResults == {<< >>, << EntryJdoe >>}

ConcurrentErrors == {ConnectFailed}

\* What the directory answered to the call's operations, as far as asked.
NoAnswers ==
  [serviceBind |-> NoError, search |-> NoError, entries |-> << >>,
   clientUnbind |-> NoError, userBind |-> NoError]

NoCall ==
  [pc |-> "done", username |-> << >>, password |-> "", client |-> 0,
   userClient |-> 0, userEntry |-> NoEntry, thrown |-> NoError,
   userInfo |-> NoRecord, answers |-> NoAnswers, result |-> Pending]

Connection(call) == [owner |-> call, users |-> {}, open |-> TRUE]

\* One Client kept at module level and handed to every call.
ClientFor_Singleton(made) == 1

\* new Client(baseClientOptions): a new object at every evaluation; client
\* and userClient are consts of the call.
ClientFor(made) == Len(made) + 1

NewClient(call, made) ==
  IF ClientFor(made) > Len(made) THEN Append(made, Connection(call)) ELSE made

Used(made, id, call) == [made EXCEPT ![id].users = @ \cup {call}]

Unbound(made, id, call, error) ==
  [made EXCEPT ![id].users = @ \cup {call},
               ![id].open = IF error = NoError THEN FALSE ELSE @]

\* The configuration every call is given.
CallConfig == getLdapConfig(getter, Undefined)

SequentialVars ==
  << getter, req, pc, ldapConfig, conns, ops, logs, searchEntries, userEntry,
     thrown, userInfo, authResult, resolverCalls, res, appConfig, page >>

\* A call runs up to its first await: the Client is made and the service
\* bind or, without a service identity, the search is sent.
CallBegins ==
  /\ Len(calls) < MaxCalls
  /\ \E username \in ConcurrentUsernames :
       calls' = Append(calls,
                  [NoCall EXCEPT
                     !.pc = IF HasServiceIdentity(CallConfig)
                            THEN "serviceBind" ELSE "search",
                     !.username = username,
                     !.password = "secret",
                     !.client = ClientFor(server)])
  /\ server' = NewClient(Len(calls) + 1, server)
  /\ UNCHANGED SequentialVars

CallServiceBindReturns(c) ==
  /\ calls[c].pc = "serviceBind"
  /\ \E outcome \in {NoError} \cup ConcurrentErrors :
       calls' = [calls EXCEPT
                   ![c].answers.serviceBind = outcome,
                   ![c].thrown = IF outcome = NoError THEN NoError
                                 ELSE ServiceBindFailure(calls[c].username,
                                                         outcome),
                   ![c].pc = IF outcome = NoError THEN "search"
                             ELSE AfterFailedServiceBind]
  /\ server' = Used(server, calls[c].client, c)
  /\ UNCHANGED SequentialVars

CallSearchReturns(c) ==
  /\ calls[c].pc = "search"
  /\ \/ \E error \in ConcurrentErrors :
          calls' = [calls EXCEPT ![c].answers.search = error,
                                 ![c].thrown = error,
                                 ![c].pc = "finally"]
     \/ \E entries \in ConcurrentResults :
          LET exception == SearchThrows(calls[c].username, entries)
          IN calls' = [calls EXCEPT
                         ![c].answers.entries = entries,
                         ![c].thrown = exception,
                         ![c].userEntry = IF exception = NoError
                                          THEN FirstMatch(entries) ELSE @,
                         ![c].pc = IF exception = NoError
                                   THEN AfterSearch ELSE "finally"]
  /\ server' = Used(server, calls[c].client, c)
  /\ UNCHANGED SequentialVars

CallClientUnbindReturns(c) ==
  /\ calls[c].pc = "unbindClient"
  /\ \E outcome \in {NoError} \cup ConcurrentErrors :
       LET released == Unbound(server, calls[c].client, c, outcome)
       IN IF outcome = NoError
          THEN /\ calls' = [calls EXCEPT ![c].userClient = ClientFor(released),
                                         ![c].pc = "userBind"]
               /\ server' = NewClient(c, released)
          ELSE /\ calls' = [calls EXCEPT ![c].answers.clientUnbind = outcome,
                                         ![c].thrown = outcome,
                                         ![c].pc = "finally"]
               /\ server' = released
  /\ UNCHANGED SequentialVars

CallUserBindReturns(c) ==
  /\ calls[c].pc = "userBind"
  /\ \E outcome \in {NoError} \cup ConcurrentErrors :
       calls' = [calls EXCEPT
                   ![c].answers.userBind = outcome,
                   ![c].thrown = IF outcome = NoError THEN NoError
                                 ELSE UserBindFailure(calls[c].username,
                                                      outcome),
                   ![c].pc = "userUnbind"]
  /\ server' = Used(server, calls[c].userClient, c)
  /\ UNCHANGED SequentialVars

CallUserUnbindReturns(c) ==
  /\ calls[c].pc = "userUnbind"
  /\ \E outcome \in {NoError} \cup ConcurrentErrors :
       LET pending == UserUnbindFailure(calls[c].thrown, outcome)
       IN /\ calls' = [calls EXCEPT
                         ![c].thrown = pending,
                         ![c].userInfo =
                            IF pending = NoError
                            THEN BuildUserInfo(calls[c].userEntry,
                                               calls[c].username, CallConfig)
                            ELSE NoRecord,
                         ![c].pc = "finally"]
          /\ server' = Unbound(server, calls[c].userClient, c, outcome)
  /\ UNCHANGED SequentialVars

CallFinallyReturns(c) ==
  /\ calls[c].pc = "finally"
  /\ \E outcome \in {NoError} \cup ConcurrentErrors :
       server' = Unbound(server, calls[c].client, c, outcome)
  /\ calls' = [calls EXCEPT
                 ![c].result = Settle(calls[c].thrown, calls[c].userInfo),
                 ![c].pc = "done"]
  /\ UNCHANGED SequentialVars

InitConcurrent ==
  Configured(DirectShapes, ConcurrentBlocks) /\ Quiescent /\ Unmounted

NextConcurrent ==
  \/ CallBegins
  \/ \E c \in 1..Len(calls) : CallServiceBindReturns(c)
  \/ \E c \in 1..Len(calls) : CallSearchReturns(c)
  \/ \E c \in 1..Len(calls) : CallClientUnbindReturns(c)
  \/ \E c \in 1..Len(calls) : CallUserBindReturns(c)
  \/ \E c \in 1..Len(calls) : CallUserUnbindReturns(c)
  \/ \E c \in 1..Len(calls) : CallFinallyReturns(c)

SpecConcurrent == InitConcurrent /\ [][NextConcurrent]_vars

\* ---------------------------------------------------------------- claims

Idx == 1..Len(ops)

\* authenticateWithLdap has returned or thrown.
Settled == authResult.kind # "pending"

\* The configuration names a service identity: a DN and a secret.
ServiceIdentityGiven ==
  /\ ldapConfig.bindDN \notin {Undefined, ""}
  /\ ldapConfig.bindCredentials \notin {Undefined, ""}

IsServiceBind(o) ==
  /\ o.op = "bind"
  /\ o.dn = ldapConfig.bindDN
  /\ o.secret = ldapConfig.bindCredentials

\* A bind as the matched entry with the submitted password.
IsUserBind(o) ==
  /\ o.op = "bind"
  /\ searchEntries # << >>
  /\ o.dn = searchEntries[1].dn
  /\ o.secret = req.password

ServiceBindSucceeded == \E i \in Idx : IsServiceBind(ops[i]) /\ ops[i].ok
ServiceBindFailed == \E i \in Idx : IsServiceBind(ops[i]) /\ ~ops[i].ok
SearchMatched ==
  /\ \E i \in Idx : ops[i].op = "search" /\ ops[i].ok
  /\ Len(searchEntries) >= 1
SearchFoundNothing ==
  /\ \E i \in Idx : ops[i].op = "search" /\ ops[i].ok
  /\ searchEntries = << >>
UserBindSucceeded == \E i \in Idx : IsUserBind(ops[i]) /\ ops[i].ok
UserBindFailed == \E i \in Idx : IsUserBind(ops[i]) /\ ~ops[i].ok

AllStepsSucceeded ==
  /\ ServiceIdentityGiven => ServiceBindSucceeded
  /\ SearchMatched
  /\ UserBindSucceeded

\* C1: a record is returned only if the service bind (when a service
\* identity is configured) succeeded, the search returned an entry and the
\* bind as that entry with the submitted password succeeded; on every other
\* path the call fails and hands out no record, and none exists before the
\* call settles.
C1_RecordOnlyAfterBothBinds ==
  /\ authResult.kind = "record" =>
       /\ AllStepsSucceeded
       /\ authResult.record.dn = searchEntries[1].dn
  /\ (Settled /\ ~AllStepsSucceeded) =>
       /\ authResult.kind = "error"
       /\ authResult.record = NoRecord
       /\ res.record = NoRecord
  /\ ~Settled => authResult.record = NoRecord

C1_Witness ==
  /\ authResult.kind = "record"
  /\ ServiceIdentityGiven
  /\ ServiceBindSucceeded

\* C2: the steps of a call occur in the order service bind (only with a
\* service identity), search, close of the search connection, user bind on a
\* fresh connection, release of that connection, extraction, return; a call
\* that fails stops where it failed and only cleans up; a call that returns
\* a record went through every step; the user bind never precedes the
\* search's answer and the successful close of the search connection.
Steps == [i \in Idx |-> << ops[i].op, ops[i].conn >>]

ExpectedSteps ==
  << << "open", 1 >> >>
  \o (IF ServiceIdentityGiven THEN << << "bind", 1 >> >> ELSE << >>)
  \o << << "search", 1 >>, << "unbind", 1 >>, << "open", 2 >>, << "bind", 2 >>,
        << "unbind", 2 >>, << "extract", 0 >>, << "return", 0 >> >>

IsPrefix(p, q) == Len(p) <= Len(q) /\ SubSeq(q, 1, Len(p)) = p

C2_StepsInOrder ==
  /\ ops # << >> =>
       \/ IsPrefix(Steps, ExpectedSteps)
       \/ /\ Steps[Len(ops)] = << "unbind", 1 >>
          /\ IsPrefix(SubSeq(Steps, 1, Len(ops) - 1), ExpectedSteps)
  /\ authResult.kind = "record" =>
       Steps = ExpectedSteps \o << << "unbind", 1 >> >>
  /\ \A i \in Idx :
       (ops[i].op = "bind" /\ (ops[i].conn = 2 \/ IsUserBind(ops[i]))) =>
         \E j \in Idx, k \in Idx :
           /\ j < k /\ k < i
           /\ ops[j].op = "search" /\ ops[j].ok
           /\ ops[k].op = "unbind" /\ ops[k].conn = 1 /\ ops[k].ok

C2_Witness ==
  /\ pc = "done"
  /\ res.status = 200
  /\ Len(ops) = Len(ExpectedSteps) + 1
  /\ ServiceIdentityGiven

\* C3: no connection carries more than one bind identity: what is bound on
\* the first connection is the service identity, every search is sent on the
\* first connection, and the user bind is the first operation of a second
\* connection opened after the search.
BindsOn(c) == {i \in Idx : ops[i].op = "bind" /\ ops[i].conn = c}

C3_OneIdentityPerConnection ==
  /\ \A c \in {ops[i].conn : i \in Idx} : Cardinality(BindsOn(c)) <= 1
  /\ \A i \in BindsOn(1) : IsServiceBind(ops[i])
  /\ \A i \in Idx : ops[i].op = "search" => ops[i].conn = 1
  /\ \A i \in Idx :
       IsUserBind(ops[i]) =>
         /\ ops[i].conn = 2
         /\ i > 1
         /\ ops[i - 1] = Op("open", 2, NoError)
         /\ \E j \in 1..(i - 1) : ops[j].op = "search"
         /\ \A j \in 1..(i - 1) : ops[j].op = "open" => ops[j].conn # 2 \/ j = i - 1

C3_Witness ==
  /\ \E i \in BindsOn(1) : ops[i].ok
  /\ \E i \in BindsOn(2) : IsUserBind(ops[i])
  /\ Settled

\* C4: when the call has returned or thrown, unbind has been called on every
\* connection it opened, whatever step failed.
UnboundConns == {ops[i].conn : i \in {j \in Idx : ops[j].op = "unbind"}}
OpenedConns == {ops[i].conn : i \in {j \in Idx : ops[j].op = "open"}}

C4_EveryConnectionReleased ==
  Settled =>
    /\ OpenedConns = 1..Len(conns)
    /\ OpenedConns \subseteq UnboundConns

C4_Witness ==
  /\ Settled
  /\ ServiceBindFailed
  /\ 1 \in UnboundConns

\* C5: when the search returns no entry the call fails with the
\* user-not-found error; no second connection is opened and no user bind (no
\* bind at all after the search) is attempted.
C5_NoEntryNoRebind ==
  SearchFoundNothing =>
    /\ Len(conns) = 1
    /\ \A i \in Idx : ops[i].conn \in {0, 1}
    /\ \A i \in Idx, j \in Idx :
         (ops[i].op = "search" /\ i < j) => ops[j].op = "unbind"
    /\ pc \in {"finally", "done"}
    /\ thrown = UserNotFoundError(req.username)
    /\ Settled => authResult = Rejected(UserNotFoundError(req.username))

C5_Witness ==
  /\ SearchFoundNothing
  /\ Settled
  /\ authResult.kind = "error"

\* C6: when an entry matched and the bind as that entry fails, the call
\* fails with the invalid-credentials error, hands out no record, and unbind
\* has been called on the re-bind connection, after the bind, by the time the
\* error reaches the caller.
C6_FailedRebindReleased ==
  (UserBindFailed /\ Settled) =>
    /\ authResult.kind = "error"
    /\ authResult.error.message =
         << "Invalid credentials for user '", req.username, "'" >>
    /\ authResult.record = NoRecord
    /\ \E i \in Idx, j \in Idx :
         /\ i < j
         /\ IsUserBind(ops[i]) /\ ~ops[i].ok
         /\ ops[j].op = "unbind" /\ ops[j].conn = ops[i].conn

C6_Witness ==
  /\ UserBindFailed
  /\ Settled
  /\ 2 \in UnboundConns

\* C7: the error of a failed user bind is a function of the submitted
\* username alone: whatever the directory answered to the bind (wrong
\* password, locked account, no connection), the caller gets the same error,
\* which carries nothing of the directory's answer.
ErrorOfFailedUserBind(username) ==
  [name |-> "Error",
   message |-> << "Invalid credentials for user '", username, "'" >>]

C7_UniformRebindError ==
  \A reason \in DirErrors :
    (/\ Settled
     /\ \E i \in Idx : IsUserBind(ops[i]) /\ ops[i].error = reason) =>
      /\ authResult.error = ErrorOfFailedUserBind(req.username)
      /\ authResult.error.message # reason.message

C7_Witness ==
  /\ Settled
  /\ \E i \in Idx : IsUserBind(ops[i]) /\ ops[i].error = AccountLocked
  /\ authResult.kind = "error"

Answered == pc = "done" /\ req.route = "frameHandler"

AnswerWhenNotFound(username) ==
  [NoResponse EXCEPT
     !.status = 401,
     !.kind = "error-object",
     !.error = [name |-> "AuthenticationError",
                message |-> << "User '", username,
                               "' not found in LDAP directory" >>]]

C10_NoAccountEnumeration ==
  /\ (Answered /\ SearchFoundNothing) => res = AnswerWhenNotFound(req.username)
  /\ (Answered /\ UserBindFailed) => res = AnswerWhenNotFound(req.username)

\* C11: a call of authenticateWithLdap with an empty password never returns a
\* user record, whatever the directory answers to the bind.
C11_EmptyPasswordNeverAuthenticates ==
  (req.route = "authenticateWithLdap" /\ req.password = "" /\ Settled)
    => authResult.kind # "record"

\* C12: a POST to frameHandler without a username or without a password
\* (absent or empty) is answered 400: authenticateWithLdap is not called, so
\* no connection is opened and no directory operation issued, and the
\* sign-in resolver is not called.
MissingCredentialsPosted ==
  /\ req.route = "frameHandler"
  /\ req.method = "POST"
  /\ ~TruthyText(req.username) \/ ~Truthy(req.password)

C12_MissingCredentialsIs400 ==
  MissingCredentialsPosted =>
    /\ pc = "done"
    /\ res = TextResponse(400, MissingCredentials)
    /\ ops = << >>
    /\ conns = << >>
    /\ authResult = Pending
    /\ resolverCalls = << >>

C12_Witness ==
  /\ MissingCredentialsPosted
  /\ TruthyText(req.username)
  /\ req.password = ""
  /\ res.status = 400

\* C13: without a service identity no bind precedes the search, and the only
\* bind of the call is the one as the matched entry with the submitted
\* password, on the second connection.
C13_AnonymousSearchThenOnlyUserBind ==
  ~ServiceIdentityGiven =>
    /\ \A i, j \in Idx :
         (ops[i].op = "bind" /\ ops[j].op = "search") => j < i
    /\ \A i, j \in Idx :
         (ops[i].op = "bind" /\ ops[j].op = "bind") => i = j
    /\ \A i \in Idx :
         ops[i].op = "bind" => IsUserBind(ops[i]) /\ ops[i].conn = UserClient

C13_Witness ==
  /\ ~ServiceIdentityGiven
  /\ Settled
  /\ authResult.kind = "record"
  /\ \E i \in Idx : IsUserBind(ops[i]) /\ ops[i].ok

\* C14: whenever a bind DN is configured, every search is preceded by an
\* accepted bind as that DN on the same connection: the search is anonymous
\* only when the DN is omitted.
C14_BindDnMeansBoundSearch ==
  Truthy(ldapConfig.bindDN) =>
    \A i \in Idx :
      ops[i].op = "search" =>
        \E j \in 1..(i - 1) :
          /\ ops[j].op = "bind"
          /\ ops[j].conn = ops[i].conn
          /\ ops[j].dn = ldapConfig.bindDN
          /\ ops[j].ok

\* C15: more than one matched entry is no failure: exactly one warning is
\* logged, the user bind is issued as the first entry in the returned order,
\* and the record is built from that entry alone; with exactly one matched
\* entry no warning is logged.
Warnings == {i \in 1..Len(logs) : logs[i].level = "warn"}

C15_FirstOfSeveralMatches ==
  /\ (SearchMatched /\ Len(searchEntries) > 1) =>
       /\ Cardinality(Warnings) = 1
       /\ pc = "unbindClient" => thrown = NoError
       /\ \A i \in Idx :
            (ops[i].op = "bind" /\ ops[i].conn = UserClient)
              => ops[i].dn = searchEntries[1].dn
       /\ (Settled /\ UserBindSucceeded) =>
            /\ authResult.kind = "record"
            /\ authResult.record =
                 BuildUserInfo(searchEntries[1], req.username, ldapConfig)
  /\ (SearchMatched /\ Len(searchEntries) = 1) => Warnings = {}

C15_Witness ==
  /\ Len(searchEntries) > 1
  /\ searchEntries[1].dn # searchEntries[2].dn
  /\ Settled
  /\ UserBindSucceeded
  /\ authResult.kind = "record"
  /\ Cardinality(Warnings) = 1

\* C16 as stated: with exactly one matched entry and both binds accepted the
\* record's dn is the entry's DN, its uid is the entry's value of the
\* configured username attribute, and the binds were (service DN, service
\* secret) then (entry DN, submitted password), in that order.
Binds == SelectSeq(ops, LAMBDA o : o.op = "bind")

SingleMatchBothBindsAccepted ==
  /\ Settled
  /\ Len(searchEntries) = 1
  /\ ServiceBindSucceeded
  /\ UserBindSucceeded

BindsInOrder ==
  Binds = << OpBind(Client, ldapConfig.bindDN, ldapConfig.bindCredentials,
                    NoError),
             OpBind(UserClient, searchEntries[1].dn, req.password, NoError) >>

C16_Original ==
  SingleMatchBothBindsAccepted =>
    /\ authResult.kind = "record"
    /\ authResult.record.dn = searchEntries[1].dn
    /\ Attr(searchEntries[1], ldapConfig.usernameAttribute)
         = VStr(authResult.record.uid)
    /\ BindsInOrder

\* C16, amended: the same, where the uid is the entry's value of the
\* configured username attribute when that value is a string, its first
\* element when it is an array that begins with a string, and the submitted
\* username when the entry has no such value.
C16_RecordOfSingleMatch ==
  SingleMatchBothBindsAccepted =>
    LET value == Attr(searchEntries[1], ldapConfig.usernameAttribute)
    IN /\ authResult.kind = "record"
       /\ authResult.record.dn = searchEntries[1].dn
       /\ value.t = "string" => authResult.record.uid = value.s
       /\ (value.t = "array" /\ value.a # << >> /\ value.a[1].str)
            => authResult.record.uid = value.a[1].s
       /\ value.t = "undefined" => authResult.record.uid = req.username
       /\ BindsInOrder

C16_Witness ==
  /\ SingleMatchBothBindsAccepted
  /\ Attr(searchEntries[1], ldapConfig.usernameAttribute).t = "string"
  /\ authResult.record.uid # req.username
  /\ authResult.record.dn = searchEntries[1].dn
  /\ BindsInOrder

\* C17: every *, (, ), backslash, NUL and / of the username is in the filter
\* sent to the directory as a backslash and the character's two hexadecimal
\* digits, and the part of the filter that comes from the username holds
\* none of these characters raw.  The part that comes from the username is
\* what stands between the template's text before its placeholder and the
\* template's text after it.
ClaimedChars == {"*", "(", ")", "\\", NUL, "/"}

HexDigits ==
  {"0", "1", "2", "3", "4", "5", "6", "7", "8", "9",
   "a", "b", "c", "d", "e", "f"}

PlaceholderAt(template) == CHOOSE i \in 1..Len(template) : MatchesAt(template, i)

TextBefore(template) == SubSeq(template, 1, PlaceholderAt(template) - 1)

TextAfter(template) ==
  SubSeq(template, PlaceholderAt(template) + Len(Placeholder), Len(template))

FromUsername(filter, template) ==
  SubSeq(filter, Len(TextBefore(template)) + 1,
         Len(filter) - Len(TextAfter(template)))

\* The claimed characters a text holds as escapes, in order; Raw marks a
\* claimed character that stands unescaped.
Raw == "<raw>"

RECURSIVE EscapesIn(_)
EscapesIn(text) ==
  IF text = << >> THEN << >>
  ELSE IF Head(text) = "\\" /\ Len(text) >= 3
          /\ text[2] \in HexDigits /\ text[3] \in HexDigits
       THEN (IF \E c \in ClaimedChars : HexCode(c) = << text[2], text[3] >>
             THEN << CHOOSE c \in ClaimedChars :
                        HexCode(c) = << text[2], text[3] >> >>
             ELSE << >>)
            \o EscapesIn(SubSeq(text, 4, Len(text)))
       ELSE (IF Head(text) \in ClaimedChars THEN << Raw >> ELSE << >>)
            \o EscapesIn(Tail(text))

C17_UsernameFullyEscaped ==
  \A i \in Idx :
    ops[i].op = "search" =>
      LET part == FromUsername(ops[i].filter, ldapConfig.searchFilter)
      IN EscapesIn(part) = SelectSeq(req.username, LAMBDA c : c \in ClaimedChars)

\* C18: nothing is retried within one call: the service bind, the search and
\* the user bind are each attempted at most once, and once a bind or a search
\* has failed no further bind or search is issued.
Attempts(op, conn) == {i \in Idx : ops[i].op = op /\ ops[i].conn = conn}

C18_NoRetry ==
  /\ Cardinality(Attempts("bind", Client)) <= 1
  /\ Cardinality(Attempts("search", Client)) <= 1
  /\ Cardinality(Attempts("bind", UserClient)) <= 1
  /\ Attempts("search", UserClient) = {}
  /\ \A i, j \in Idx :
       (i < j /\ ops[i].op \in {"bind", "search"} /\ ~ops[i].ok)
         => ops[j].op \notin {"bind", "search"}

C18_Witness ==
  /\ Settled
  /\ ServiceBindFailed
  /\ Len(ops) >= 3
  /\ Cardinality(Attempts("bind", Client)) = 1
  /\ Attempts("search", Client) = {}

\* C19: the second connection is unbound after the user bind, accepted or
\* refused, and a failure of that unbind leaves the outcome as it was: the
\* record after an accepted bind, the invalid-credentials error after a
\* refused one.
UserUnbindFailed ==
  \E i \in Idx :
    ops[i].op = "unbind" /\ ops[i].conn = UserClient /\ ~ops[i].ok

C19_RebindReleaseBestEffort ==
  Settled =>
    /\ \A i \in Idx :
         (ops[i].op = "bind" /\ ops[i].conn = UserClient) =>
           \E j \in Idx :
             j > i /\ ops[j].op = "unbind" /\ ops[j].conn = UserClient
    /\ (UserUnbindFailed /\ UserBindSucceeded) =>
         authResult = Returned(BuildUserInfo(searchEntries[1], req.username,
                                             ldapConfig))
    /\ (UserUnbindFailed /\ UserBindFailed) =>
         authResult = Rejected(InvalidCredentialsError(req.username))

C19_Witness ==
  /\ Settled
  /\ UserUnbindFailed
  /\ UserBindSucceeded
  /\ authResult.kind = "record"

\* C20: a failure to close the search connection after a search that matched
\* is ignored: the call still goes on to the user bind, and with an accepted
\* bind it returns the record.
SearchConnectionCloseFailed ==
  \E i \in Idx :
    /\ ops[i].op = "search"
    /\ ops[i].ok
    /\ Len(searchEntries) >= 1
    /\ i + 1 <= Len(ops)
    /\ ops[i + 1].op = "unbind"
    /\ ops[i + 1].conn = Client
    /\ ~ops[i + 1].ok

C20_SearchConnectionCloseIgnored ==
  (Settled /\ SearchConnectionCloseFailed) =>
    /\ Attempts("bind", UserClient) # {}
    /\ UserBindSucceeded => authResult.kind = "record"

\* C22: for a POST to frameHandler with a username and a password, the
\* sign-in resolver is called only once authenticateWithLdap has returned a
\* record, with that record's uid as the entity name, and a 200 response with
\* the identity token is sent only after the authentication returned a record
\* and the resolver was called with it.
CredentialsPosted ==
  /\ req.route = "frameHandler"
  /\ req.method = "POST"
  /\ TruthyText(req.username)
  /\ Truthy(req.password)

C22_ResolverAfterRecordTokenAfterBoth ==
  CredentialsPosted =>
    /\ resolverCalls # << >> =>
         /\ authResult.kind = "record"
         /\ resolverCalls = << authResult.record.uid >>
    /\ res.status = 200 =>
         /\ authResult.kind = "record"
         /\ resolverCalls = << authResult.record.uid >>
         /\ res = IdentityResponse(authResult.record, "backstage-token")
    /\ res.token # "" => res.status = 200

C22_Witness ==
  /\ CredentialsPosted
  /\ res.status = 200
  /\ res.token = "backstage-token"
  /\ authResult.record.uid # req.username

\* C23: when the configuration selection, authenticateWithLdap or the sign-in
\* resolver fails during a credential request, the answer is a 401 whose
\* error is named AuthenticationError and which carries no token; after a
\* failed authenticateWithLdap the resolver is not called.  The resolver has
\* failed when it was called and the answer is not the identity response.
ConfigSelectionFailed == getLdapConfigError(getter, req.env) # NoError

AuthenticationFailed == authResult.kind = "error"

ResolverHasFailed == resolverCalls # << >> /\ res.kind # "identity"

C23_EveryFailureIsAuthenticationError ==
  (CredentialsPosted /\ pc = "done") =>
    /\ (ConfigSelectionFailed \/ AuthenticationFailed \/ ResolverHasFailed) =>
         /\ res.status = 401
         /\ res.kind = "error-object"
         /\ res.error.name = "AuthenticationError"
         /\ res.token = ""
    /\ (ConfigSelectionFailed \/ AuthenticationFailed) => resolverCalls = << >>
    /\ ConfigSelectionFailed => ops = << >>
    /\ ResolverHasFailed => res.error.message = ResolverFailed.message

C23_Witness ==
  /\ CredentialsPosted
  /\ pc = "done"
  /\ ResolverHasFailed
  /\ res.status = 401

\* C24: only a POST to frameHandler starts an authentication: frameHandler
\* with another method answers 405, start 405, refresh 501 and logout 200,
\* and none of them calls authenticateWithLdap or the sign-in resolver.
NothingCalled ==
  /\ ops = << >>
  /\ conns = << >>
  /\ authResult = Pending
  /\ resolverCalls = << >>

RecordReturned == authResult.kind = "record"

MatchedValue(attribute) == Attr(searchEntries[1], attribute)

\* The string elements of a sequence value, in order.
StringElements(items) ==
  LET strings == SelectSeq(items, LAMBDA item : item.str)
  IN [k \in 1..Len(strings) |-> strings[k].s]

C25_MemberOfCoercion ==
  /\ RecordReturned =>
       LET value == MatchedValue("memberOf")
           memberOf == authResult.record.memberOf
       IN /\ value.t = "string" => memberOf = ArrResult(<< value.s >>)
          /\ value.t = "array" => memberOf = ArrResult(StringElements(value.a))
          /\ value.t \in {"undefined", "other"} => memberOf = NoResult
  /\ (Settled /\ UserBindSucceeded) => RecordReturned

C25_Witness ==
  /\ RecordReturned
  /\ MatchedValue("memberOf").t = "string"
  /\ authResult.record.memberOf = ArrResult(<< Jd >>)

\* C26: the record's attributes map has a key for a requested attribute
\* exactly when the entry's value for it is a string or a sequence of strings
\* only, the value stored is that value unchanged, and the map has no key
\* outside the configured requested attributes.
Requested == {ldapConfig.userAttributes[k] : k \in 1..Len(ldapConfig.userAttributes)}

OnlyStrings(value) ==
  value.t = "array" /\ \A k \in 1..Len(value.a) : value.a[k].str

C26_AttributesMapExact ==
  RecordReturned =>
    LET attributes == authResult.record.attributes
    IN /\ DOMAIN attributes \subseteq Requested
       /\ \A attr \in Requested :
            LET value == MatchedValue(attr)
            IN /\ attr \in DOMAIN attributes
                  <=> (value.t = "string" \/ OnlyStrings(value))
               /\ (attr \in DOMAIN attributes /\ value.t = "string")
                  => attributes[attr] = StrResult(value.s)
               /\ (attr \in DOMAIN attributes /\ value.t = "array")
                  => /\ attributes[attr].t = "array"
                     /\ Len(attributes[attr].a) = Len(value.a)
                     /\ attributes[attr].a = StringElements(value.a)

\* C27: the record's uid is the entry's value of the configured username
\* attribute when that is a string, its first element when it is a sequence
\* whose first element is a string, and the submitted username otherwise.
C27_UidOfRecord ==
  RecordReturned =>
    LET value == MatchedValue(ldapConfig.usernameAttribute)
        uid == authResult.record.uid
        firstIsString ==
          value.t = "array" /\ value.a # << >> /\ value.a[1].str
    IN /\ value.t = "string" => uid = value.s
       /\ firstIsString => uid = value.a[1].s
       /\ (value.t # "string" /\ ~firstIsString) => uid = req.username

C27_Witness ==
  /\ RecordReturned
  /\ MatchedValue(ldapConfig.usernameAttribute).t = "array"
  /\ Len(MatchedValue(ldapConfig.usernameAttribute).a) = 2
  /\ authResult.record.uid = Am
  /\ req.username # Am

\* C28: with an ldaps URL both connections of a call are opened with the
\* configured URL and with certificate rejection as configured (rejecting
\* when tls.rejectUnauthorized is true or left out), and the two connections
\* never differ in their options.
SelectedRaw == RawBlock(appConfig.common, "")

C28_SameTransportOnBothConnections ==
  /\ \A i \in 1..Len(conns) :
       /\ conns[i].url = SelectedRaw.url
       /\ SelectedRaw.url \in LdapsUrls =>
            conns[i].tlsOptions =
              (IF SelectedRaw.rejectUnauthorized = "false"
               THEN "accept" ELSE "reject")
  /\ \A i, j \in 1..Len(conns) : conns[i] = conns[j]

C28_Witness ==
  /\ Len(conns) = 2
  /\ SelectedRaw.url \in LdapsUrls
  /\ SelectedRaw.rejectUnauthorized = "false"
  /\ conns[2].tlsOptions = "accept"

\* C29: the configuration handed to authenticateWithLdap has, for each
\* optional field that is not set, its default (usernameAttribute "uid",
\* filter "(uid={{username}})", attributes mail, displayName, memberOf, and
\* tls.rejectUnauthorized true), and for each field that is set its value.
AuthenticatorCalled == ops # << >>

C29_DefaultsAndPassThrough ==
  AuthenticatorCalled =>
    LET raw == SelectedRaw
    IN /\ ldapConfig.url = raw.url
       /\ ldapConfig.searchBase = raw.searchBase
       /\ ldapConfig.bindDN = raw.bindDN
       /\ ldapConfig.bindCredentials = raw.bindCredentials
       /\ ldapConfig.usernameAttribute =
            (IF raw.usernameAttribute = Undefined
             THEN "uid" ELSE raw.usernameAttribute)
       /\ ldapConfig.searchFilter =
            (IF raw.searchFilter = UndefinedText
             THEN << "(", "u", "i", "d", "=", "{", "{", "u", "s", "e", "r",
                     "n", "a", "m", "e", "}", "}", ")" >>
             ELSE raw.searchFilter)
       /\ ldapConfig.userAttributes =
            (IF raw.userAttributes = UndefinedList
             THEN << "mail", "displayName", "memberOf" >>
             ELSE raw.userAttributes)
       /\ ldapConfig.tls.rejectUnauthorized =
            (raw.rejectUnauthorized \in {Undefined, "true"})

C29_Witness ==
  /\ AuthenticatorCalled
  /\ SelectedRaw.usernameAttribute = Undefined
  /\ SelectedRaw.searchFilter # UndefinedText
  /\ SelectedRaw.rejectUnauthorized = Undefined
  /\ ldapConfig.usernameAttribute = "uid"
  /\ ldapConfig.searchFilter = SelectedRaw.searchFilter
  /\ ldapConfig.tls.rejectUnauthorized

\* C30: a submission of the sign-in form whose username is empty after
\* trimming, or whose password is empty, shows 'Please enter both username
\* and password', does not enter the loading state and sends no request: the
\* page is loading only with a username and a password in its fields, and
\* every request sent carries a non-blank username and a password.
Blank(text) == \A k \in 1..Len(text) : text[k] = " "

NothingToSubmit == Blank(page.username) \/ page.password = ""

C30_BlankSubmissionRejected ==
  /\ [](page.loading => ~NothingToSubmit)
  /\ [](\A k \in 1..Len(page.fetches) :
          ~Blank(page.fetches[k].username) /\ page.fetches[k].password # "")
  /\ [][(NothingToSubmit /\ Submit) =>
          /\ page'.error = PleaseEnterBoth
          /\ ~page'.loading
          /\ page'.pc = "form"
          /\ page'.fetches = page.fetches]_vars

C30_Witness ==
  /\ page.pc = "form"
  /\ page.username = << " ", " " >>
  /\ page.password = "p"
  /\ page.error = PleaseEnterBoth
  /\ ~page.loading
  /\ page.fetches = << >>

\* C21: concurrent calls of authenticateWithLdap are independent under
\* every interleaving: every connection is used by the call that made it and
\* by no other, no two calls hold the same connection, and a settled call's
\* outcome is the outcome the same arguments and the same directory answers
\* give a call that runs alone.
AloneOutcome(call) ==
  LET a == call.answers
  IN IF HasServiceIdentity(CallConfig) /\ a.serviceBind # NoError
     THEN Rejected(a.serviceBind)
     ELSE IF a.search # NoError THEN Rejected(a.search)
     ELSE IF Len(a.entries) = 0
     THEN Rejected(UserNotFoundError(call.username))
     ELSE IF a.clientUnbind # NoError THEN Rejected(a.clientUnbind)
     ELSE IF a.userBind # NoError
     THEN Rejected(InvalidCredentialsError(call.username))
     ELSE Returned(BuildUserInfo(a.entries[1], call.username, CallConfig))

ConnectionsOf(c) == {calls[c].client, calls[c].userClient} \ {0}

C21_ConcurrentCallsIndependent ==
  /\ \A k \in 1..Len(server) : server[k].users \subseteq {server[k].owner}
  /\ \A c \in 1..Len(calls) :
       /\ \A k \in ConnectionsOf(c) : server[k].owner = c
       /\ \A d \in 1..Len(calls) :
            c # d => ConnectionsOf(c) \cap ConnectionsOf(d) = {}
       /\ calls[c].pc = "done" => calls[c].result = AloneOutcome(calls[c])

\* Two calls for the same user whose operations interleaved (the second call
\* made both its connections between the first call's two) and which settled
\* differently.
C21_Witness ==
  /\ Len(calls) = 2
  /\ calls[1].pc = "done" /\ calls[2].pc = "done"
  /\ calls[1].username = calls[2].username
  /\ [k \in 1..Len(server) |-> server[k].owner] = << 1, 2, 2, 1 >>
  /\ calls[1].result.kind = "record"
  /\ calls[2].result = Rejected(InvalidCredentialsError(calls[2].username))

\* C33: the filter sent to the directory is the template with every
\* occurrence of the placeholder replaced by exactly the escaped username and
\* nothing else changed, whatever characters the username holds.
RECURSIVE SubstituteLiterally(_, _, _)
SubstituteLiterally(template, text, i) ==
  IF i > Len(template) THEN << >>
  ELSE IF MatchesAt(template, i)
       THEN text \o SubstituteLiterally(template, text, i + Len(Placeholder))
       ELSE << template[i] >> \o SubstituteLiterally(template, text, i + 1)

C33_LiteralSubstitution ==
  \A i \in Idx :
    ops[i].op = "search" =>
      ops[i].filter = SubstituteLiterally(ldapConfig.searchFilter,
                                          escapeLdapFilter(req.username), 1)

\* C34: with environment-scoped configuration a request with credentials
\* uses the block its env parameter names; without the parameter, the only
\* configured block, or 'development' in development mode where that block
\* is configured.  Where no environment can be selected or the selected one
\* is not configured, the request fails and no directory operation is made.
\* With flat configuration every request uses the top-level block.
NoEnv == "<no environment>"

EnvOfRequest ==
  IF req.env # Undefined THEN req.env
  ELSE IF \E e \in appConfig.envs : appConfig.envs = {e}
  THEN CHOOSE e \in appConfig.envs : TRUE
  ELSE IF appConfig.nodeEnv = "development" /\ "development" \in appConfig.envs
  THEN "development"
  ELSE NoEnv

BlockOf(env) ==
  [appConfig.common EXCEPT !.searchBase =
     CASE env = "development" -> "ou=users,dc=dev"
       [] env = "production"  -> "ou=users,dc=prod"
       [] OTHER               -> "ou=users,dc=example"]

UsesBlock(raw) ==
  /\ conns # << >>
  /\ conns[1].url = raw.url
  /\ ldapConfig.url = raw.url
  /\ ldapConfig.searchBase = raw.searchBase
  /\ ldapConfig.bindDN = raw.bindDN
  /\ ldapConfig.bindCredentials = raw.bindCredentials
  /\ \A i \in Idx : ops[i].op = "search" => ops[i].dn = raw.searchBase

C34_EnvironmentSelection ==
  CredentialsPosted =>
    IF appConfig.flat THEN UsesBlock(BlockOf(""))
    ELSE IF EnvOfRequest \in appConfig.envs THEN UsesBlock(BlockOf(EnvOfRequest))
    ELSE /\ ops = << >>
         /\ conns = << >>
         /\ authResult = Pending
         /\ res.status = 401

\* Two environments configured, development mode, no env parameter: the
\* search has gone to the development block's base.
C34_Witness ==
  /\ CredentialsPosted
  /\ ~appConfig.flat
  /\ appConfig.envs = {"development", "production"}
  /\ appConfig.nodeEnv = "development"
  /\ req.env = Undefined
  /\ \E i \in Idx : ops[i].op = "search" /\ ops[i].dn = "ou=users,dc=dev"

\* C31: a submission ends in onSignInSuccess only when its response was OK,
\* was JSON without an error and held a token and an identity; every other
\* end of a submission (a response that is not OK, an error body, a missing
\* token or identity, a failed request) shows an error message, calls
\* onSignInSuccess not at all and leaves the stored session as it was.
Complete(response) ==
  /\ response.ok
  /\ response.json = "object"
  /\ response.error = "<none>"
  /\ response.token
  /\ response.identity

\* {error && <Alert>...}: the alert is rendered for a non-empty text.
ErrorShown(error) == error \notin {Null, ""}

SubmissionEnds == page.loading /\ ~page'.loading

C31_SignInOnlyOnCompleteResponse ==
  [][/\ SubmissionEnds =>
          IF page.pc = "body" /\ Complete(page.response)
          THEN /\ Len(page'.signedIn) = Len(page.signedIn) + 1
               /\ page'.signedIn[Len(page'.signedIn)].from = "response"
          ELSE /\ ErrorShown(page'.error)
               /\ page'.signedIn = page.signedIn
               /\ page'.storage = page.storage
     /\ (page.pc # "unmounted" /\ page'.signedIn # page.signedIn) =>
          page.pc = "body" /\ Complete(page.response)]_vars

\* C32: from the start of a valid submission until its request has
\* completed the page is loading, and the username field, the password field
\* and the submit button are disabled: nothing is typed and nothing further
\* is submitted.  When the request has completed, with a sign-in, an error
\* response or a failure, the page is no longer loading.
InFlight == page.pc \in {"discovery", "fetch", "body"}

C32_LoadingWhileSubmitting ==
  /\ [](page.loading <=> InFlight)
  /\ [][page.loading =>
          /\ page'.username = page.username
          /\ page'.password \in {page.password, ""}
          /\ Len(page'.fetches) <= 1 + Len(page.fetches)
          /\ page.pc # "discovery" => page'.fetches = page.fetches]_vars
  /\ [][(~page.loading /\ page'.loading) =>
          /\ page'.pc = "discovery"
          /\ ~NothingToSubmit]_vars

\* A submission whose request failed: the form is back, not loading, with
\* the failure shown.
C32_Witness ==
  /\ page.pc = "form"
  /\ ~page.loading
  /\ Len(page.fetches) = 1
  /\ page.error = "Failed to fetch"
  /\ page.signedIn = << >>

\* C35: mounting the page signs the user in from localStorage only if the
\* stored value parses to a session and its token's exp, where the token has
\* a readable one, lies more than five minutes ahead.  A stored session whose
\* token has expired or expires within five minutes is removed and not used;
\* a stored value that is no session is not used.
Mounts == page.pc = "unmounted" /\ page'.pc # "unmounted"

ExpiresSoon(stored, now) ==
  stored.exp # NoExp /\ stored.exp <= now + RefreshMargin

C35_CachedSignInOnlyIfFresh ==
  [][Mounts =>
       LET stored == page.storage
       IN /\ page'.signedIn # page.signedIn =>
               /\ stored.shape = "session"
               /\ ~ExpiresSoon(stored, page.now)
          /\ (stored.shape = "session" /\ ExpiresSoon(stored, page.now)) =>
               /\ page'.storage = NothingStored
               /\ page'.signedIn = page.signedIn
          /\ stored.shape # "session" => page'.signedIn = page.signedIn]_vars

\* C36: once signOut of a signed-in identity has been called the stored
\* session is absent from localStorage, whether the base URL lookup fails or
\* the logout request succeeds, is answered with an error or fails; signOut
\* settles without failing; and the page mounted after it signs nobody in
\* from the cache.
SignOutCalled == page.signOut # "idle"

C36_SignOutClearsStoredSession ==
  /\ [](SignOutCalled => page.storage = NothingStored)
  /\ [](page.signOut \in {"idle", "discovery", "fetch", "resolved", "reloaded"})
  /\ [][(SignOutCalled /\ Mounts) => page'.signedIn = page.signedIn]_vars

\* An identity signed in from the stored session has signed out while the
\* logout request was rejected, and the page, loaded anew, shows the form
\* with nobody signed in again.
C36_Witness ==
  /\ page.signOut = "reloaded"
  /\ page.pc = "form"
  /\ page.storage = NothingStored
  /\ Len(page.signedIn) = 1
  /\ page.signedIn[1].from = "storage"
  /\ Len(page.logouts) = 1
  /\ page.logouts[1].outcome = "rejected"

====
